---- MODULE Spec2Model ----
(***************************************************************************)
(* Order lifecycle and fund-splitting ledger of the DS shop backend.       *)
(*                                                                         *)
(* The persisted state is the set of MySQL/InnoDB tables the handlers      *)
(* touch.  Every handler runs in one transaction on its own connection     *)
(* (core/database.py get_conn, autocommit=False): its writes are kept in a *)
(* per-worker transaction buffer and reach the tables only at commit; an   *)
(* exception rolls the buffer back.  UPDATE/DELETE statements take row     *)
(* locks that are held until commit or rollback.                           *)
(*                                                                         *)
(* Amounts are integers in tenths of the currency's minor unit, so that a  *)
(* DECIMAL(12,2) column, which holds whole minor units only, is a column of *)
(* multiples of 10 and storing a finer value rounds it (RoundMinor).       *)
(***************************************************************************)
EXTENDS Integers, Sequences, FiniteSets, TLC

VARIABLES
    stock,          \* product_skus.stock, per SKU id
    cart,           \* rows of table cart
    orders,         \* rows of table orders
    order_items,    \* rows of table order_items
    order_split,    \* rows of table order_split
    account_flow,   \* rows of table account_flow, in insertion order
    balance,        \* finance_accounts.balance, per account
    refunds,        \* rows of table refunds, in insertion order
    proc,           \* request workers: position in the handler, locals, open transaction
    nextId,         \* AUTO_INCREMENT counter of orders.id
    now,            \* wall clock, in days
    stock0,         \* the stock the run started with (history)
    has_stock_field, \* whether table product_skus has a column named stock
    rproc,          \* refund workers: position in the handler, locals, open transaction
    applyLog,       \* the RefundManager.apply calls so far, per order number (history)
    auditCount,     \* number of RefundManager.audit calls so far
    sched,          \* the auto-receive thread: position in the tick, rows fetched, open transaction
    settled,        \* per order number, how often its total was settled to the merchant (history)
    ack             \* the response to the latest payment request (pay route or callback)

dbVars == <<stock, cart, orders, order_items, order_split, account_flow, balance>>
\* what order creation and the cart never touch
refundVars == <<refunds, rproc, applyLog, auditCount>>
\* the clock, the scheduler and the payment callback
envVars == <<now, stock0, has_stock_field, sched, settled, ack>>
vars == <<stock, cart, orders, order_items, order_split, account_flow, balance,
          refunds, proc, nextId, now, stock0, has_stock_field, rproc, applyLog,
          auditCount,
          sched, settled, ack>>

----------------------------------------------------------------------------
\* Bounds of the model

\* largest initial stock of a SKU
MaxStock == 2
\* number of order rows that may be inserted (committed or rolled back)
MaxOrders == 2
\* largest quantity a cart row accumulates
MaxCartQty == 2

----------------------------------------------------------------------------
\* Catalog fixture: users, products and SKUs present in the database

Workers == {"w1", "w2"}
Users == {1, 2}
Products == {1, 2}
Skus == {1, 2, 3}
\* a product id no products row has
MissingProduct == 9
\* a SKU id no product_skus row has
MissingSku == 8

\* product_skus.product_id: SKUs 1 and 2 belong to product 1, SKU 3 to product 2
SkuProduct(s) == IF s = 3 THEN 2 ELSE 1
SkusOf(p) == {s \in Skus : SkuProduct(s) = p}
\* product_skus.price, DECIMAL(12,2): 1.00, 0.50, 0.33
SkuPrice(s) == CASE s = 1 -> 1000 [] s = 2 -> 500 [] OTHER -> 330
\* products.is_member_product: product 2 is the premium product
is_member_product(p) == p = 2

----------------------------------------------------------------------------
\* Helpers

RECURSIVE SumFn(_, _)
SumFn(f, S) ==
    IF S = {} THEN 0
    ELSE LET x == CHOOSE y \in S : TRUE IN f[x] + SumFn(f, S \ {x})

SumSeq(q) == SumFn(q, DOMAIN q)

\* Storing a value in a DECIMAL(12,2) column: MySQL rounds half away from zero
RoundMinor(x) ==
    IF x >= 0 THEN ((x + 5) \div 10) * 10
    ELSE -((((-x) + 5) \div 10) * 10)

----------------------------------------------------------------------------
\* Requests of POST /order/create (OrderCreate)

Line(p, s, q, pr) == [product_id |-> p, sku_id |-> s, quantity |-> q, price |-> pr]

\* buy_now_items payloads: every field is caller-supplied (List[Dict[str, Any]])
BuyNowLists ==
    { <<>>,
      <<Line(1, 1, 1, 1000)>>,
      <<Line(1, 1, 2, 1000)>>,
      <<Line(1, 2, 1, 500)>>,
      <<Line(2, 3, 2, 330)>>,
      <<Line(1, 1, 2, 4)>>,
      <<Line(2, 3, -1, 330)>>,
      <<Line(MissingProduct, 1, 1, 1000)>>,
      <<Line(1, MissingSku, 1, 1000)>>,
      <<Line(1, 1, 1, 1000), Line(1, 2, 1, 500)>>,
      <<Line(2, 3, 1, 330), Line(1, 1, 1, 1000)>> }

CartCheckout(u) ==
    [user_id |-> u, buy_now |-> FALSE, buy_now_items |-> <<>>, custom_addr |-> FALSE,
     specifications |-> "none"]

BuyNow(u, items, addr) ==
    [user_id |-> u, buy_now |-> TRUE, buy_now_items |-> items, custom_addr |-> addr,
     specifications |-> "none"]

\* the users who send requests
Shoppers == {1}

\* every request shape, for the handlers run one at a time
CreateRequests ==
    {CartCheckout(u) : u \in Shoppers}
    \cup {BuyNow(1, l, TRUE) : l \in BuyNowLists}
    \cup {BuyNow(1, l, FALSE) : l \in {<<>>, <<Line(1, 1, 1, 1000)>>,
                                        <<Line(MissingProduct, 1, 1, 1000)>>}}

\* the requests of the workers that run concurrently
ConcurrentRequests ==
    {CartCheckout(u) : u \in Shoppers}
    \cup {BuyNow(1, l, TRUE) : l \in {<<Line(2, 3, 2, 330)>>, <<Line(1, 1, 2, 1000)>>,
                                      <<Line(2, 3, 1, 330), Line(1, 1, 1, 1000)>>}}

NoRequest == CartCheckout(0)

----------------------------------------------------------------------------
\* OrderManager.create: pure parts

\* buy-now lines with the premium flag of their product attached
BuyNowItems(lines) ==
    [i \in DOMAIN lines |->
        [product_id |-> lines[i].product_id, sku_id |-> lines[i].sku_id,
         quantity |-> lines[i].quantity, price |-> lines[i].price,
         is_vip |-> is_member_product(lines[i].product_id)]]

\* the selected cart rows of a user joined with product_skus (on sku_id) and products
CartItems(c, u) ==
    LET S == {e \in c : e.user_id = u /\ e.selected = 1 /\ e.sku_id \in Skus
                        /\ e.product_id \in Products}
        n == Cardinality(S)
        ord == CHOOSE q \in [1..n -> S] :
                   \A i, j \in 1..n : i < j => q[i].product_id < q[j].product_id
    IN [i \in 1..n |->
           [product_id |-> ord[i].product_id, sku_id |-> ord[i].sku_id,
            quantity |-> ord[i].quantity, price |-> SkuPrice(ord[i].sku_id),
            is_vip |-> is_member_product(ord[i].product_id)]]

\* total = sum(Decimal(quantity) * Decimal(price)), exact
OrderTotal(items) == SumSeq([i \in DOMAIN items |-> items[i].quantity * items[i].price])

has_vip(items) == \E i \in DOMAIN items : items[i].is_vip

\* auto_recv_time = now + timedelta(days=7)
AutoRecvDays == 7

\* Faulty variant of OrderRow: the order is inserted as already paid
OrderRow_paid(oid, req, items, t) ==
    [order_number |-> oid, user_id |-> req.user_id,
     total_amount |-> RoundMinor(OrderTotal(items)), status |-> "pending_ship",
     is_vip_item |-> has_vip(items), refund_reason |-> req.specifications,
     auto_recv_time |-> t + AutoRecvDays]

\* the orders row of INSERT INTO orders; total_amount is a DECIMAL(12,2) column
OrderRow(oid, req, items, t) ==
    [order_number |-> oid, user_id |-> req.user_id,
     total_amount |-> RoundMinor(OrderTotal(items)), status |-> "pending_pay",
     is_vip_item |-> has_vip(items), refund_reason |-> req.specifications,
     auto_recv_time |-> t + AutoRecvDays]

\* the order_items rows; unit_price and total_price are DECIMAL(12,2) columns
ItemRows(oid, items) ==
    {[order_id |-> oid, line |-> i, product_id |-> items[i].product_id,
      sku_id |-> items[i].sku_id, quantity |-> items[i].quantity,
      unit_price |-> RoundMinor(items[i].price),
      total_price |-> RoundMinor(items[i].quantity * items[i].price)] : i \in DOMAIN items}

\* UPDATE product_skus SET stock = stock - %s WHERE product_id = %s, as a change
\* added to the pending stock changes of the transaction
DeductStock(delta, item) ==
    [s \in Skus |-> IF SkuProduct(s) = item.product_id
                    THEN delta[s] - item.quantity ELSE delta[s]]

\* Faulty variant of SelectedCartRows: the DELETE lacks the selected = 1 condition
SelectedCartRows_all(c, u) == {e \in c : e.user_id = u}

\* DELETE FROM cart WHERE user_id = %s AND selected = 1: the rows it deletes
SelectedCartRows(c, u) == {e \in c : e.user_id = u /\ e.selected = 1}

----------------------------------------------------------------------------
\* Fund Split Engine (services.finance_service.split_order_funds)

Accounts == {"merchant", "platform", "subsidy_pool", "development_fund"}

\* percentage table: premium-item orders route to a different pool set
SplitShares(vip) ==
    IF vip THEN <<[account |-> "merchant", pct |-> 80],
                  [account |-> "development_fund", pct |-> 10]>>
    ELSE <<[account |-> "merchant", pct |-> 80],
           [account |-> "subsidy_pool", pct |-> 10]>>

\* the designated pool that receives the rounding remainder
RemainderPool == "platform"

\* a share of the total, rounded down to the minor unit
ShareAmount(total, pct) == ((total * pct) \div 1000) * 10

\* the split of an order: one entry per destination, in the order written
SplitEntries(total, vip) ==
    LET t == RoundMinor(total)
        sh == SplitShares(vip)
        fixed == [i \in DOMAIN sh |->
                     [account |-> sh[i].account, amount |-> ShareAmount(t, sh[i].pct)]]
        given == SumSeq([i \in DOMAIN fixed |-> fixed[i].amount])
    IN Append(fixed, [account |-> RemainderPool, amount |-> t - given])

\* order_split rows of an order
SplitRows(order_number, total, vip) ==
    LET e == SplitEntries(total, vip)
    IN {[order_number |-> order_number, account |-> e[i].account,
         amount |-> e[i].amount] : i \in DOMAIN e}

\* account_flow rows of the split, each with the balance it leaves
SplitFlows(order_number, total, vip, bal) ==
    LET e == SplitEntries(total, vip)
    IN [i \in DOMAIN e |->
           [account |-> e[i].account, change_amount |-> e[i].amount,
            balance_after |-> bal[e[i].account] + e[i].amount,
            flow_type |-> "split", order_number |-> order_number]]

\* balances after a sequence of flow rows
ApplyFlows(bal, flows) ==
    [a \in Accounts |->
        bal[a] + SumFn([i \in DOMAIN flows |-> IF flows[i].account = a
                                               THEN flows[i].change_amount ELSE 0],
                       DOMAIN flows)]

----------------------------------------------------------------------------
\* Request workers and their transactions

Ok(oid) == [code |-> 200, kind |-> "ok", order_number |-> oid]
Err(code, kind) == [code |-> code, kind |-> kind, order_number |-> 0]
NoResult == [code |-> 0, kind |-> "none", order_number |-> 0]

NoStock == [s \in Skus |-> 0]

\* the pending writes of an open transaction
EmptyTx ==
    [orders |-> {}, items |-> {}, stockDelta |-> NoStock, cartDel |-> {},
     split |-> {}, flows |-> <<>>]

IdleProc ==
    [pc |-> "idle", req |-> NoRequest, items |-> <<>>, oid |-> 0, k |-> 0,
     tx |-> EmptyTx, locks |-> {}, result |-> NoResult]

\* row locks: <<"sku", s>>, <<"cart", u>>, <<"acct", a>>
HeldByOther(p, need) == \E q \in Workers \ {p} : proc[q].locks \cap need # {}

\* the handler has returned or raised: the connection is closed, the locals are gone
Finished(p, res) == [IdleProc EXCEPT !.pc = "done", !.result = res]

\* Faulty variant of Commit: the commit takes effect before the split was written, so the
\* order becomes visible without its split and ledger rows
Commit_before_split(p, res) ==
    LET tx == proc[p].tx IN
    /\ orders' = orders \cup tx.orders
    /\ order_items' = order_items \cup tx.items
    /\ stock' = [s \in Skus |-> stock[s] + tx.stockDelta[s]]
    /\ cart' = cart \ tx.cartDel
    /\ UNCHANGED <<order_split, account_flow, balance>>
    /\ proc' = [proc EXCEPT ![p] = Finished(p, res)]

\* conn.commit(): the pending writes reach the tables together, the locks are released
Commit(p, res) ==
    LET tx == proc[p].tx IN
    /\ orders' = orders \cup tx.orders
    /\ order_items' = order_items \cup tx.items
    /\ stock' = [s \in Skus |-> stock[s] + tx.stockDelta[s]]
    /\ cart' = cart \ tx.cartDel
    /\ order_split' = order_split \cup tx.split
    /\ account_flow' = account_flow \o tx.flows
    /\ balance' = ApplyFlows(balance, tx.flows)
    /\ proc' = [proc EXCEPT ![p] = Finished(p, res)]

\* Faulty variant of Rollback: the connection is closed without a rollback taking effect
\* and the pending writes are committed
Rollback_commits(p, res) == Commit(p, res)

\* get_conn: except Exception: conn.rollback(); raise -- the pending writes are dropped
Rollback(p, res) ==
    /\ proc' = [proc EXCEPT ![p] = Finished(p, res)]
    /\ UNCHANGED dbVars

----------------------------------------------------------------------------
\* OrderManager.create, statement by statement

\* Faulty variant of AssembleError: a buy-now without an address is let through
AssembleError_no_addr(req) ==
    IF req.buy_now
    THEN IF req.buy_now_items = <<>> THEN Err(422, "ValidationError")
         ELSE IF \E i \in DOMAIN req.buy_now_items :
                     req.buy_now_items[i].product_id \notin Products
              THEN Err(404, "NotFound")
         ELSE NoResult
    ELSE IF CartItems(cart, req.user_id) = <<>> THEN Err(422, "EmptyCheckout")
         ELSE NoResult

\* Faulty variant of AssembleError: a cart checkout goes on with no lines
AssembleError_empty_cart(req) ==
    IF req.buy_now
    THEN IF req.buy_now_items = <<>> THEN Err(422, "ValidationError")
         ELSE IF \E i \in DOMAIN req.buy_now_items :
                     req.buy_now_items[i].product_id \notin Products
              THEN Err(404, "NotFound")
         ELSE IF ~req.custom_addr THEN Err(422, "ValidationError")
         ELSE NoResult
    ELSE NoResult

\* the outcome of assembling the order lines (section 1 of create)
AssembleError(req) ==
    IF req.buy_now
    THEN IF req.buy_now_items = <<>> THEN Err(422, "ValidationError")
         ELSE IF \E i \in DOMAIN req.buy_now_items :
                     req.buy_now_items[i].product_id \notin Products
              THEN Err(404, "NotFound")
         ELSE IF ~req.custom_addr THEN Err(422, "ValidationError")
         ELSE NoResult
    ELSE IF CartItems(cart, req.user_id) = <<>> THEN Err(422, "EmptyCheckout")
         ELSE NoResult

AssembleItems(req) ==
    IF req.buy_now THEN BuyNowItems(req.buy_now_items) ELSE CartItems(cart, req.user_id)

\* lines 38-106: open the transaction, read the lines, insert the orders row
CreateStart(p, req) ==
    /\ proc[p].pc = "idle"
    /\ nextId <= MaxOrders
    /\ IF AssembleError(req) # NoResult
       THEN /\ proc' = [proc EXCEPT ![p] = Finished(p, AssembleError(req))]
            /\ UNCHANGED nextId
       ELSE LET items == AssembleItems(req) IN
            /\ proc' = [proc EXCEPT ![p] =
                          [IdleProc EXCEPT !.pc = "stock_check", !.req = req,
                                           !.items = items, !.oid = nextId, !.k = 1,
                                           !.tx = [EmptyTx EXCEPT !.orders =
                                                     {OrderRow(nextId, req, items, now)}]]]
            /\ nextId' = nextId + 1
    /\ UNCHANGED <<dbVars, refundVars, envVars>>

\* SELECT stock FROM product_skus WHERE product_id = %s; fetchone(): which SKU row
\* of each product comes first (the query has no ORDER BY)
RowPicks == {f \in [Products -> Skus] : \A pr \in Products : SkuProduct(f[pr]) = pr}

\* the stock read for a line; no row reads as 0
StockRead(view, pick, product_id) ==
    IF product_id \in Products THEN view[pick[product_id]] ELSE 0

\* lines 109-118: the stock column the check selects; without a column named stock
\* the statement selects the literal 0 AS stock
StockView == IF has_stock_field THEN stock ELSE NoStock

\* lines 147-156: what follows the insertion of the lines; the stock is decremented
\* only when the column exists
AfterItems(req) ==
    IF has_stock_field THEN "deduct" ELSE IF req.buy_now THEN "split" ELSE "clear_cart"

\* lines 109-145: check every line against the stock read, then insert the lines
CreateCheckStock(p) ==
    /\ proc[p].pc = "stock_check"
    /\ \E pick \in RowPicks :
         LET items == proc[p].items
             rd == [i \in DOMAIN items |->
                       StockRead(StockView, pick, items[i].product_id)]
         IN IF \E i \in DOMAIN items : rd[i] < items[i].quantity
            THEN Rollback(p, Err(400, "InsufficientStock"))
            ELSE /\ proc' = [proc EXCEPT ![p].pc = AfterItems(proc[p].req),
                                         ![p].tx.items = ItemRows(proc[p].oid, items)]
                 /\ UNCHANGED dbVars
    /\ UNCHANGED <<refundVars, nextId, envVars>>

\* the locks the next statement of the handler needs
NeededLocks(p) ==
    CASE proc[p].pc = "deduct" ->
            {<<"sku", s>> : s \in SkusOf(proc[p].items[proc[p].k].product_id)}
      [] proc[p].pc = "clear_cart" -> {<<"cart", proc[p].req.user_id>>}
      [] proc[p].pc = "split" ->
            {<<"acct", r.account>> :
                r \in SplitRows(0, OrderTotal(proc[p].items), has_vip(proc[p].items))}
      [] OTHER -> {}

\* lines 147-152: one UPDATE per line, decrementing the rows of the line's product
CreateDeductStock(p) ==
    /\ proc[p].pc = "deduct"
    /\ ~HeldByOther(p, NeededLocks(p))
    /\ LET k == proc[p].k
           last == k = Len(proc[p].items)
       IN proc' = [proc EXCEPT
                     ![p].locks = @ \cup NeededLocks(p),
                     ![p].tx.stockDelta = DeductStock(@, proc[p].items[k]),
                     ![p].k = IF last THEN 0 ELSE k + 1,
                     ![p].pc = IF ~last THEN "deduct"
                               ELSE IF proc[p].req.buy_now THEN "split" ELSE "clear_cart"]
    /\ UNCHANGED <<dbVars, refundVars, nextId, envVars>>

\* lines 154-156: delete the user's selected cart rows (cart checkout only)
CreateClearCart(p) ==
    /\ proc[p].pc = "clear_cart"
    /\ ~HeldByOther(p, NeededLocks(p))
    /\ proc' = [proc EXCEPT
                  ![p].locks = @ \cup NeededLocks(p),
                  ![p].tx.cartDel = SelectedCartRows(cart, proc[p].req.user_id),
                  ![p].pc = "split"]
    /\ UNCHANGED <<dbVars, refundVars, nextId, envVars>>

\* line 159: split_order_funds(order_number, total, has_vip, cursor=cur)
CreateSplit(p) ==
    /\ proc[p].pc = "split"
    /\ ~HeldByOther(p, NeededLocks(p))
    /\ LET total == OrderTotal(proc[p].items)
           vip == has_vip(proc[p].items)
       IN proc' = [proc EXCEPT
                     ![p].locks = @ \cup NeededLocks(p),
                     ![p].tx.split = SplitRows(proc[p].oid, total, vip),
                     ![p].tx.flows = SplitFlows(proc[p].oid, total, vip, balance),
                     ![p].pc = "commit"]
    /\ UNCHANGED <<dbVars, refundVars, nextId, envVars>>

\* lines 161-162: conn.commit(); return order_number
CreateCommit(p) ==
    /\ proc[p].pc = "commit"
    /\ Commit(p, Ok(proc[p].oid))
    /\ UNCHANGED <<refundVars, nextId, envVars>>

\* a statement waiting for a row lock fails (deadlock victim, lock wait timeout):
\* pymysql raises, get_conn rolls back
CreateLockFail(p) ==
    /\ proc[p].pc \in {"deduct", "clear_cart", "split"}
    /\ HeldByOther(p, NeededLocks(p))
    /\ Rollback(p, Err(500, "InternalError"))
    /\ UNCHANGED <<refundVars, nextId, envVars>>

----------------------------------------------------------------------------
\* CartManager.add (api/order/cart.py), one transaction

CartAdd(u, pid, q) ==
    /\ ~HeldByOther("none", {<<"cart", u>>})
    /\ \E s \in SkusOf(pid) :
         LET old == {e \in cart : e.user_id = u /\ e.product_id = pid} IN
         IF old # {}
         THEN /\ \A e \in old : e.quantity + q <= MaxCartQty
              /\ cart' = (cart \ old) \cup {[e EXCEPT !.quantity = @ + q] : e \in old}
         ELSE /\ q <= MaxCartQty
              /\ cart' = cart \cup {[user_id |-> u, product_id |-> pid, sku_id |-> s,
                                     quantity |-> q, selected |-> 1]}
    /\ UNCHANGED <<stock, orders, order_items, order_split, account_flow, balance,
                   refundVars, proc, nextId, envVars>>

----------------------------------------------------------------------------
\* Refund workflow (order/refund.py)

\* an order number no orders row has
MissingOrder == 9
\* the order numbers refund requests name
RefundOrderNumbers == {1, 2, MissingOrder}
\* refunds.refund_type, ENUM('return','refund_only')
RefundTypes == {"return", "refund_only"}

\* largest number of apply calls per order number
MaxApplies == 2
\* largest number of audit calls
MaxAudits == 2

NoRefundRequest == [op |-> "none", order_number |-> 0, refund_type |-> "none",
                    approve |-> FALSE, reject_reason |-> "none"]
ApplyRequest(o, t) == [op |-> "apply", order_number |-> o, refund_type |-> t,
                       approve |-> FALSE, reject_reason |-> "none"]
AuditRequest(o, a, r) == [op |-> "audit", order_number |-> o, refund_type |-> "none",
                          approve |-> a, reject_reason |-> r]

\* audit(approve, reject_reason) payloads
AuditChoices == {<<TRUE, "none">>, <<FALSE, "damaged">>}

IdleRefund == [pc |-> "idle", req |-> NoRefundRequest, locks |-> {}, result |-> NoResult]

\* row locks held by another refund worker: <<"refund", o>>, <<"order", o>>
RefundHeldByOther(p, need) == \E q \in Workers \ {p} : rproc[q].locks \cap need # {}

RefundFinished(res) == [IdleRefund EXCEPT !.pc = "done", !.result = res]

\* the positions of the refund rows of an order number
RefundRowsOf(o) == {i \in DOMAIN refunds : refunds[i].order_number = o}

\* Faulty variant of RefundExists: the existence check never finds a row
RefundExists_never(o) == FALSE

\* SELECT id FROM refunds WHERE order_number=%s; fetchone()
RefundExists(o) == RefundRowsOf(o) # {}

\* refund_apply: {"ok": True}, or HTTPException(400) when apply returned False
refund_apply(ok) == IF ok THEN Ok(0) ELSE Err(400, "DuplicateOperation")

\* the statuses of the refund rows of an order number, in insertion order
RefundStatuses(rows, o) ==
    LET mine == SelectSeq(rows, LAMBDA r : r.order_number = o)
    IN [i \in DOMAIN mine |-> mine[i].status]

LogApply(o, ok, after) ==
    [applyLog EXCEPT ![o] = Append(@, [ok |-> ok, code |-> refund_apply(ok).code,
                                      before |-> RefundStatuses(refunds, o),
                                      after |-> RefundStatuses(after, o)])]

\* apply, lines 13-17: the existence check; an existing row returns False, which
\* refund_apply reports as HTTP 400
ApplyCheck(p, o, t) ==
    /\ rproc[p].pc = "idle"
    /\ Len(applyLog[o]) < MaxApplies
    /\ IF RefundExists(o)
       THEN /\ rproc' = [rproc EXCEPT ![p] = RefundFinished(refund_apply(FALSE))]
            /\ applyLog' = LogApply(o, FALSE, refunds)
       ELSE /\ rproc' = [rproc EXCEPT ![p] = [IdleRefund EXCEPT !.pc = "apply_insert",
                                                                 !.req = ApplyRequest(o, t)]]
            /\ UNCHANGED applyLog
    /\ UNCHANGED <<dbVars, proc, nextId, envVars, refunds, auditCount>>

\* the refunds row of INSERT INTO refunds
RefundRow(req) ==
    [order_number |-> req.order_number, refund_type |-> req.refund_type,
     reason |-> "reason", status |-> "applied", reject_reason |-> "none"]

\* apply, lines 18-21: insert the row and commit; refunds.order_number references
\* orders.order_number (refunds_ibfk_1), so a missing order raises
ApplyInsert(p) ==
    /\ rproc[p].pc = "apply_insert"
    /\ ~RefundHeldByOther(p, {<<"refund", rproc[p].req.order_number>>,
                              <<"order", rproc[p].req.order_number>>})
    /\ LET o == rproc[p].req.order_number IN
       IF \E r \in orders : r.order_number = o
       THEN /\ refunds' = Append(refunds, RefundRow(rproc[p].req))
            /\ rproc' = [rproc EXCEPT ![p] = RefundFinished(refund_apply(TRUE))]
            /\ applyLog' = LogApply(o, TRUE, refunds')
       ELSE /\ rproc' = [rproc EXCEPT ![p] = RefundFinished(Err(500, "InternalError"))]
            /\ UNCHANGED <<refunds, applyLog>>
    /\ UNCHANGED <<dbVars, proc, nextId, envVars, auditCount>>

\* Faulty variant of AuditNewStatus: every audit records a rejection
AuditNewStatus_rejected(approve) == "rejected"

\* new_status = "success" if approve else "rejected"
AuditNewStatus(approve) == IF approve THEN "success" ELSE "rejected"

\* audit, lines 25-31: UPDATE refunds, and on approval UPDATE orders; both rows stay
\* locked, and the changes pending, until the commit
AuditUpdate(p, o, approve, reject_reason) ==
    /\ rproc[p].pc = "idle"
    /\ auditCount < MaxAudits
    /\ LET need == {<<"refund", o>>} \cup (IF approve THEN {<<"order", o>>} ELSE {})
       IN /\ ~RefundHeldByOther(p, need)
          /\ rproc' = [rproc EXCEPT ![p] =
                         [IdleRefund EXCEPT
                             !.pc = IF approve THEN "audit_reverse" ELSE "audit_commit",
                             !.req = AuditRequest(o, approve, reject_reason),
                             !.locks = need]]
    /\ auditCount' = auditCount + 1
    /\ UNCHANGED <<dbVars, proc, nextId, envVars, refunds, applyLog>>

\* finance.finance_logic.reverse_split_on_refund: for each recorded split row of the
\* order, a ledger row of the negated amount
ReversalFlows(o, bal) ==
    LET rows == {r \in order_split : r.order_number = o}
        n == Cardinality(rows)
        ord == CHOOSE q \in [1..n -> rows] : \A i, j \in 1..n : i # j => q[i] # q[j]
    IN [i \in 1..n |->
           [account |-> ord[i].account, change_amount |-> -ord[i].amount,
            balance_after |-> bal[ord[i].account] - ord[i].amount,
            flow_type |-> "refund", order_number |-> o]]

\* audit, line 32: reverse_split_on_refund(order_number); it is handed neither the
\* connection nor the cursor, so it writes through a connection of its own
AuditReverse(p) ==
    /\ rproc[p].pc = "audit_reverse"
    /\ LET flows == ReversalFlows(rproc[p].req.order_number, balance) IN
       /\ account_flow' = account_flow \o flows
       /\ balance' = ApplyFlows(balance, flows)
    /\ rproc' = [rproc EXCEPT ![p].pc = "audit_commit"]
    /\ UNCHANGED <<stock, cart, orders, order_items, order_split, proc, nextId, envVars, refunds, applyLog, auditCount>>

\* UPDATE refunds SET status=%s,reject_reason=%s WHERE order_number=%s
AuditedRefunds(rows, req) ==
    [i \in DOMAIN rows |->
        IF rows[i].order_number = req.order_number
        THEN [rows[i] EXCEPT !.status = AuditNewStatus(req.approve),
                             !.reject_reason = req.reject_reason]
        ELSE rows[i]]

\* Faulty variant of RefundedOrders: the order is marked refunded whatever the verdict
RefundedOrders_any(rows, req) ==
    {IF r.order_number = req.order_number THEN [r EXCEPT !.status = "refund"] ELSE r
        : r \in rows}

\* UPDATE orders SET status='refund' WHERE order_number=%s OR order_no=%s
RefundedOrders(rows, req) ==
    IF req.approve
    THEN {IF r.order_number = req.order_number THEN [r EXCEPT !.status = "refund"] ELSE r
            : r \in rows}
    ELSE rows

\* audit, lines 33-34: conn.commit(); return True
AuditCommit(p) ==
    /\ rproc[p].pc = "audit_commit"
    /\ refunds' = AuditedRefunds(refunds, rproc[p].req)
    /\ orders' = RefundedOrders(orders, rproc[p].req)
    /\ rproc' = [rproc EXCEPT ![p] = RefundFinished(Ok(0))]
    /\ UNCHANGED <<stock, cart, order_items, order_split, account_flow, balance, proc,
                   nextId, envVars, applyLog, auditCount>>

\* a statement that waits for a row lock of another transaction may fail (lock wait
\* timeout): get_conn rolls back and re-raises; nothing of this handler was written
RefundLockFail(p) ==
    /\ \/ /\ rproc[p].pc = "apply_insert"
          /\ RefundHeldByOther(p, {<<"refund", rproc[p].req.order_number>>,
                                   <<"order", rproc[p].req.order_number>>})
       \/ /\ rproc[p].pc = "idle"
          /\ auditCount < MaxAudits
          /\ \E o \in RefundOrderNumbers : RefundHeldByOther(p, {<<"refund", o>>})
    /\ rproc' = [rproc EXCEPT ![p] = RefundFinished(Err(500, "InternalError"))]
    /\ auditCount' = IF rproc[p].pc = "idle" THEN auditCount + 1 ELSE auditCount
    /\ UNCHANGED <<dbVars, proc, nextId, envVars, refunds, applyLog>>

\* the worker takes the next request
RefundRecycle(p) ==
    /\ rproc[p].pc = "done"
    /\ rproc' = [rproc EXCEPT ![p] = IdleRefund]
    /\ UNCHANGED <<dbVars, proc, nextId, envVars, refunds, applyLog, auditCount>>

----------------------------------------------------------------------------
\* Auto-receive scheduler (order/fasteners.py)

\* the thread sleeps between ticks; rows: what the SELECT of the tick fetched and
\* the loop has not yet worked through
IdleSched == [pc |-> "sleep", rows |-> <<>>]

\* no callback answered yet
NoAck == [code |-> "none", event_type |-> "none", out_trade_no |-> 0]

\* latest clock value
MaxNow == 9
\* largest number of settlements of one order
MaxSettles == 3

\* SELECT id,order_number,total_amount FROM orders
\* WHERE status='pending_recv' AND auto_recv_time<=now; fetchall()
DueRows(t) ==
    LET S == {r \in orders : r.status = "pending_recv" /\ r.auto_recv_time <= t}
        n == Cardinality(S)
        ord == CHOOSE q \in [1..n -> S] :
                   \A i, j \in 1..n : i < j => q[i].order_number < q[j].order_number
    IN [i \in 1..n |-> [order_number |-> ord[i].order_number,
                        total_amount |-> ord[i].total_amount]]

\* lines 13-16: a tick opens a connection and fetches the due orders; with none the
\* loop body does not run and the thread sleeps again
TickSelect ==
    /\ sched.pc = "sleep"
    /\ \A o \in DOMAIN settled : settled[o] < MaxSettles
    /\ sched' = IF DueRows(now) = <<>> THEN IdleSched
                ELSE [pc |-> "update", rows |-> DueRows(now)]
    /\ UNCHANGED <<dbVars, refundVars, proc, nextId, now, stock0, has_stock_field, settled, ack>>

\* line 18: UPDATE orders SET status='completed' WHERE id=%s, pending until the commit;
\* the statement waits while an audit holds the lock of the row
TickUpdate ==
    /\ sched.pc = "update"
    /\ ~\E p \in Workers : <<"order", Head(sched.rows).order_number>> \in rproc[p].locks
    /\ sched' = [sched EXCEPT !.pc = "settle"]
    /\ UNCHANGED <<dbVars, refundVars, proc, nextId, now, stock0, has_stock_field, settled, ack>>

\* finance.finance_logic.settle_to_merchant(amount): a ledger credit of the amount on
\* the merchant account
SettleFlow(amount, bal) ==
    [account |-> "merchant", change_amount |-> amount,
     balance_after |-> bal["merchant"] + amount, flow_type |-> "settle", order_number |-> 0]

\* Faulty variant of TickSettle: the merchant balance is credited and no ledger row
\* is written
TickSettle_no_flow ==
    /\ sched.pc = "settle"
    /\ LET row == Head(sched.rows) IN
          /\ balance' = [balance EXCEPT !["merchant"] = @ + row.total_amount]
          /\ settled' = [settled EXCEPT ![row.order_number] = @ + 1]
    /\ sched' = [sched EXCEPT !.pc = "commit"]
    /\ UNCHANGED <<stock, cart, orders, order_items, order_split, account_flow, refundVars,
                   proc, nextId, now, stock0, has_stock_field, ack>>

\* line 19: settle_to_merchant(row["total_amount"]); it is handed only the amount, so
\* it writes through a connection of its own
TickSettle ==
    /\ sched.pc = "settle"
    /\ LET row == Head(sched.rows)
           flows == <<SettleFlow(row.total_amount, balance)>>
       IN /\ account_flow' = account_flow \o flows
          /\ balance' = ApplyFlows(balance, flows)
          /\ settled' = [settled EXCEPT ![row.order_number] = @ + 1]
    /\ sched' = [sched EXCEPT !.pc = "commit"]
    /\ UNCHANGED <<stock, cart, orders, order_items, order_split, refundVars, proc,
                   nextId, now, stock0, has_stock_field, ack>>

\* the orders table after the UPDATE of line 18 for one fetched row
CompletedOrders(rows, row) ==
    {IF r.order_number = row.order_number THEN [r EXCEPT !.status = "completed"] ELSE r
        : r \in rows}

\* line 20: conn.commit(), then the next fetched row, or the sleep after the last
TickCommit ==
    /\ sched.pc = "commit"
    /\ orders' = CompletedOrders(orders, Head(sched.rows))
    /\ sched' = IF Tail(sched.rows) = <<>> THEN IdleSched
                ELSE [pc |-> "update", rows |-> Tail(sched.rows)]
    /\ UNCHANGED <<stock, cart, order_items, order_split, account_flow, balance,
                   refundVars, proc, nextId, now, stock0, has_stock_field, settled, ack>>

\* lines 22-24: a statement of the loop body raises; get_conn rolls the open
\* transaction back, the except clause of the tick logs, the thread sleeps
TickFail ==
    /\ sched.pc \in {"update", "settle", "commit"}
    /\ sched' = IdleSched
    /\ UNCHANGED <<dbVars, refundVars, proc, nextId, now, stock0, has_stock_field, settled, ack>>

\* lines 18-20: from its UPDATE to its commit the tick holds the lock of the orders row
TickLocked(o) == sched.pc \in {"settle", "commit"} /\ Head(sched.rows).order_number = o

\* datetime.now() moves on
TimePasses ==
    /\ now < MaxNow
    /\ now' = now + 1
    /\ UNCHANGED <<dbVars, refundVars, proc, nextId, stock0, has_stock_field, sched, settled, ack>>

----------------------------------------------------------------------------
\* Order status routes (api/order/order.py) and payment callback (api/wechat_pay/routes.py)

\* orders.status values the routes are called with
Statuses == {"pending_pay", "pending_ship", "pending_recv", "completed", "refund"}
\* core.config.VALID_PAY_WAYS, the payment methods order_pay allows
VALID_PAY_WAYS == {"alipay", "wechat"}
\* OrderPay.pay_way values
PayWays == {"wechat", "cash"}
\* StatusUpdate.reason values; "none" is no reason
Reasons == {"none", "late"}

\* OrderManager.update_status: UPDATE orders SET status = %s, refund_reason = %s
\* WHERE order_number = %s; conn.commit()
update_status(rows, order_number, new_status, reason) ==
    {IF r.order_number = order_number
     THEN [r EXCEPT !.status = new_status, !.refund_reason = reason] ELSE r : r \in rows}

\* the response of order_pay: {"ok": cur.rowcount > 0}, true when the UPDATE changed a row
PayReply(o, rows) ==
    [code |-> IF rows # orders THEN "ok:true" ELSE "ok:false",
     event_type |-> "pay", out_trade_no |-> o]

\* Faulty variant of OrderPay: the payment method is not checked
OrderPay_unchecked(o, pay_way) ==
    /\ orders' = update_status(orders, o, "pending_ship", "none")
    /\ ack' = PayReply(o, orders')
    /\ UNCHANGED <<stock, cart, order_items, order_split, account_flow, balance,
                   refundVars, proc, nextId, now, stock0, has_stock_field, sched, settled>>

\* order_pay: 422 for a payment method outside the allow-list, otherwise
\* update_status(order_number, "pending_ship")
OrderPay(o, pay_way) ==
    /\ IF pay_way \in VALID_PAY_WAYS
       THEN /\ orders' = update_status(orders, o, "pending_ship", "none")
            /\ ack' = PayReply(o, orders')
       ELSE /\ orders' = orders
            /\ ack' = [code |-> "422", event_type |-> "pay", out_trade_no |-> o]
    /\ UNCHANGED <<stock, cart, order_items, order_split, account_flow, balance,
                   refundVars, proc, nextId, now, stock0, has_stock_field, sched, settled>>

\* list_by_user and detail: the specification returned for an order is the content
\* of its refund_reason column
specifications(row) == row.refund_reason

\* route update_status: update_status(order_number, new_status, reason)
UpdateStatus(o, new_status, reason) ==
    /\ orders' = update_status(orders, o, new_status, reason)
    /\ UNCHANGED <<stock, cart, order_items, order_split, account_flow, balance,
                   refundVars, proc, nextId, envVars>>

\* wechat_pay_notify event types
EventTypes == {"TRANSACTION.SUCCESS", "OTHER"}

\* the event types wechat_pay_notify has a handler for
HandledEvents == {"APPLYMENT_STATE_CHANGE", "TRANSACTION.SUCCESS"}

\* wechat_pay_notify: a callback that fails the signature check is answered FAIL; a
\* verified one is dispatched on its event type. handle_transaction_success reads
\* out_trade_no and logs, handle_applyment_state_change updates the applyment, and
\* the callback is answered SUCCESS; an unknown event type is answered FAIL
WechatPayNotify(verified, event_type, out_trade_no) ==
    /\ ack' = [code |-> IF verified /\ event_type \in HandledEvents THEN "SUCCESS" ELSE "FAIL",
               event_type |-> event_type, out_trade_no |-> out_trade_no]
    /\ UNCHANGED <<dbVars, refundVars, proc, nextId, now, stock0, has_stock_field, sched, settled>>

\* the deployment: core.config.ENVIRONMENT and the environment variable
\* TEST_NOTIFY_TOKEN ("none": not set)
Deployments == [ENVIRONMENT : {"production", "development"},
                TEST_NOTIFY_TOKEN : {"none", "abc"}]

\* the headers of a callback request: signed, all four Wechatpay-* headers are there;
\* valid, verify_signature returns true for them; bypass, X-DEV-BYPASS-VERIFY or
\* X-DEV-BYPASS is there; test_token, the value of X-DEV-TEST-TOKEN ("none": absent)
NotifyHeaders == [signed : BOOLEAN, valid : BOOLEAN, bypass : BOOLEAN,
                  test_token : {"none", "abc", "xyz"}]

\* lines 61-63: the condition under which the signature is not looked at
SkipsVerification(cfg, hdr) ==
    \/ hdr.bypass /\ cfg.ENVIRONMENT # "production"
    \/ /\ hdr.test_token # "none"
       /\ cfg.TEST_NOTIFY_TOKEN # "none"
       /\ hdr.test_token = cfg.TEST_NOTIFY_TOKEN

\* lines 61-76: the request gets past the signature check
PassesSignature(cfg, hdr) == SkipsVerification(cfg, hdr) \/ (hdr.signed /\ hdr.valid)

\* wechat_pay_notify for a request with the given headers
NotifyRequest(cfg, hdr, event_type, out_trade_no) ==
    WechatPayNotify(PassesSignature(cfg, hdr), event_type, out_trade_no)

----------------------------------------------------------------------------
\* Order creation by concurrent request workers

\* SKUs 1 and 3 start fully stocked, SKU 2 with any stock up to the bound
InitStocks == {f \in [Skus -> 0..MaxStock] : f[1] = MaxStock /\ f[3] = MaxStock}

Init ==
    /\ stock \in InitStocks
    /\ stock0 = stock
    /\ has_stock_field = TRUE
    /\ cart = {}
    /\ orders = {}
    /\ order_items = {}
    /\ order_split = {}
    /\ account_flow = <<>>
    /\ balance = [a \in Accounts |-> 0]
    /\ refunds = <<>>
    /\ proc = [p \in Workers |-> IdleProc]
    /\ nextId = 1
    /\ now = 0
    /\ rproc = [p \in Workers |-> IdleRefund]
    /\ applyLog = [o \in RefundOrderNumbers |-> <<>>]
    /\ auditCount = 0
    /\ sched = IdleSched
    /\ settled = [o \in RefundOrderNumbers |-> 0]
    /\ ack = NoAck

Next ==
    \/ \E p \in Workers, req \in ConcurrentRequests : CreateStart(p, req)
    \/ \E p \in Workers : CreateCheckStock(p)
    \/ \E p \in Workers : CreateDeductStock(p)
    \/ \E p \in Workers : CreateClearCart(p)
    \/ \E p \in Workers : CreateSplit(p)
    \/ \E p \in Workers : CreateCommit(p)
    \/ \E p \in Workers : CreateLockFail(p)
    \/ \E u \in Shoppers, pid \in Products : CartAdd(u, pid, 1)

Spec == Init /\ [][Next]_vars

----------------------------------------------------------------------------
\* The handlers run one at a time: a single worker serves request after request

Solo == "w1"

\* the worker takes the next request
Recycle(p) ==
    /\ proc[p].pc = "done"
    /\ proc' = [proc EXCEPT ![p] = IdleProc]
    /\ UNCHANGED <<dbVars, refundVars, nextId, envVars>>

SeqCartAdd(u, pid, q) ==
    /\ proc[Solo].pc = "idle"
    /\ CartAdd(u, pid, q)

NextSeq ==
    \/ \E req \in CreateRequests : CreateStart(Solo, req)
    \/ CreateCheckStock(Solo)
    \/ CreateDeductStock(Solo)
    \/ CreateClearCart(Solo)
    \/ CreateSplit(Solo)
    \/ CreateCommit(Solo)
    \/ Recycle(Solo)
    \/ \E u \in Shoppers, pid \in Products : SeqCartAdd(u, pid, 1)

SpecSeq == Init /\ [][NextSeq]_vars

----------------------------------------------------------------------------
\* The refund workflow over orders that were created and paid before

\* the buy-now purchases behind the orders: an ordinary one and a premium one
PlacedLines == <<(<<Line(1, 1, 2, 1000)>>), (<<Line(2, 3, 2, 330)>>)>>
PlacedItems(n) == BuyNowItems(PlacedLines[n])

\* the orders row of purchase n, made at time n - 1, after payment; the first
\* purchase came with a specification payload
PlacedOrder(n) ==
    [OrderRow(n, [BuyNow(1, PlacedLines[n], TRUE) EXCEPT
                     !.specifications = IF n = 1 THEN "red" ELSE "none"],
              PlacedItems(n), n - 1)
        EXCEPT !.status = "pending_ship"]

\* the ledger after the splits of the first n purchases
RECURSIVE PlacedFlows(_)
PlacedFlows(n) ==
    IF n = 0 THEN <<>>
    ELSE LET before == PlacedFlows(n - 1)
         IN before \o SplitFlows(n, OrderTotal(PlacedItems(n)), has_vip(PlacedItems(n)),
                                 ApplyFlows([a \in Accounts |-> 0], before))

InitRefund ==
    /\ stock0 = [s \in Skus |-> MaxStock]
    /\ has_stock_field = TRUE
    /\ stock = [s \in Skus |-> 0]
    /\ cart = {}
    /\ orders = {PlacedOrder(n) : n \in DOMAIN PlacedLines}
    /\ order_items = UNION {ItemRows(n, PlacedItems(n)) : n \in DOMAIN PlacedLines}
    /\ order_split = UNION {SplitRows(n, OrderTotal(PlacedItems(n)), has_vip(PlacedItems(n)))
                              : n \in DOMAIN PlacedLines}
    /\ account_flow = PlacedFlows(Len(PlacedLines))
    /\ balance = ApplyFlows([a \in Accounts |-> 0], account_flow)
    /\ refunds = <<>>
    /\ proc = [p \in Workers |-> IdleProc]
    /\ nextId = Len(PlacedLines) + 1
    /\ now = 0
    /\ rproc = [p \in Workers |-> IdleRefund]
    /\ applyLog = [o \in RefundOrderNumbers |-> <<>>]
    /\ auditCount = 0
    /\ sched = IdleSched
    /\ settled = [o \in RefundOrderNumbers |-> 0]
    /\ ack = NoAck

\* concurrent refund requests, each worker serving one
NextRefund ==
    \/ \E p \in Workers, o \in RefundOrderNumbers, t \in RefundTypes : ApplyCheck(p, o, t)
    \/ \E p \in Workers : ApplyInsert(p)
    \/ \E p \in Workers, o \in RefundOrderNumbers, c \in AuditChoices :
           AuditUpdate(p, o, c[1], c[2])
    \/ \E p \in Workers : AuditReverse(p)
    \/ \E p \in Workers : AuditCommit(p)
    \/ \E p \in Workers : RefundLockFail(p)

SpecRefund == InitRefund /\ [][NextRefund]_vars

\* refund requests served one at a time
NextRefundSeq ==
    \/ \E o \in RefundOrderNumbers, t \in RefundTypes : ApplyCheck(Solo, o, t)
    \/ ApplyInsert(Solo)
    \/ \E o \in RefundOrderNumbers, c \in AuditChoices : AuditUpdate(Solo, o, c[1], c[2])
    \/ AuditReverse(Solo)
    \/ AuditCommit(Solo)
    \/ RefundRecycle(Solo)

SpecRefundSeq == InitRefund /\ [][NextRefundSeq]_vars

----------------------------------------------------------------------------
\* The scheduler over orders that were shipped before

\* every order is paid, some are shipped and wait for receipt; no deadline has passed
InitSched ==
    /\ stock0 = [s \in Skus |-> MaxStock]
    /\ has_stock_field = TRUE
    /\ stock = [s \in Skus |-> 0]
    /\ cart = {}
    /\ \E shipped \in SUBSET DOMAIN PlacedLines :
          orders = {IF n \in shipped THEN [PlacedOrder(n) EXCEPT !.status = "pending_recv"]
                    ELSE PlacedOrder(n) : n \in DOMAIN PlacedLines}
    /\ order_items = UNION {ItemRows(n, PlacedItems(n)) : n \in DOMAIN PlacedLines}
    /\ order_split = UNION {SplitRows(n, OrderTotal(PlacedItems(n)), has_vip(PlacedItems(n)))
                              : n \in DOMAIN PlacedLines}
    /\ account_flow = PlacedFlows(Len(PlacedLines))
    /\ balance = ApplyFlows([a \in Accounts |-> 0], account_flow)
    /\ refunds = <<>>
    /\ proc = [p \in Workers |-> IdleProc]
    /\ nextId = Len(PlacedLines) + 1
    /\ now = AutoRecvDays - 1
    /\ rproc = [p \in Workers |-> IdleRefund]
    /\ applyLog = [o \in RefundOrderNumbers |-> <<>>]
    /\ auditCount = 0
    /\ sched = IdleSched
    /\ settled = [o \in RefundOrderNumbers |-> 0]
    /\ ack = NoAck

NextSched ==
    \/ TickSelect
    \/ TickUpdate
    \/ TickSettle
    \/ TickCommit
    \/ TickFail
    \/ TimePasses

SpecSched == InitSched /\ [][NextSched]_vars

----------------------------------------------------------------------------
\* The life of orders after creation: status routes, refund audit and payment
\* callback served one at a time, next to the scheduler thread; a statement that
\* needs a row lock another transaction holds waits for it

\* the orders as order creation committed them
InitLife ==
    /\ stock0 = [s \in Skus |-> MaxStock]
    /\ has_stock_field = TRUE
    /\ stock = [s \in Skus |-> 0]
    /\ cart = {}
    /\ orders = {[PlacedOrder(n) EXCEPT !.status = "pending_pay"] : n \in DOMAIN PlacedLines}
    /\ order_items = UNION {ItemRows(n, PlacedItems(n)) : n \in DOMAIN PlacedLines}
    /\ order_split = UNION {SplitRows(n, OrderTotal(PlacedItems(n)), has_vip(PlacedItems(n)))
                              : n \in DOMAIN PlacedLines}
    /\ account_flow = PlacedFlows(Len(PlacedLines))
    /\ balance = ApplyFlows([a \in Accounts |-> 0], account_flow)
    /\ refunds = <<>>
    /\ proc = [p \in Workers |-> IdleProc]
    /\ nextId = Len(PlacedLines) + 1
    /\ now = AutoRecvDays - 1
    /\ rproc = [p \in Workers |-> IdleRefund]
    /\ applyLog = [o \in RefundOrderNumbers |-> <<>>]
    /\ auditCount = 0
    /\ sched = IdleSched
    /\ settled = [o \in RefundOrderNumbers |-> 0]
    /\ ack = NoAck

\* the order numbers the requests name: the first order and a missing one
LifeOrderNumbers == {1, MissingOrder}

NextLife ==
    \/ /\ rproc[Solo].pc = "idle"
       /\ \E o \in LifeOrderNumbers, w \in PayWays : ~TickLocked(o) /\ OrderPay(o, w)
    \/ /\ rproc[Solo].pc = "idle"
       /\ \E o \in LifeOrderNumbers, st \in Statuses, r \in Reasons :
              ~TickLocked(o) /\ UpdateStatus(o, st, r)
    \/ /\ rproc[Solo].pc = "idle"
       /\ \E v \in BOOLEAN, e \in EventTypes : WechatPayNotify(v, e, 1)
    \/ \E o \in LifeOrderNumbers, c \in AuditChoices :
           (c[1] => ~TickLocked(o)) /\ AuditUpdate(Solo, o, c[1], c[2])
    \/ AuditReverse(Solo)
    \/ AuditCommit(Solo)
    \/ RefundRecycle(Solo)
    \/ TickSelect
    \/ TickUpdate
    \/ TickSettle
    \/ TickCommit
    \/ TimePasses

SpecLife == InitLife /\ [][NextLife]_vars

----------------------------------------------------------------------------
\* Properties of order creation

LinesOf(o) == {l \in order_items : l.order_id = o.order_number}
SplitOf(o) == {r \in order_split : r.order_number = o.order_number}
FlowsOf(n) == {i \in DOMAIN account_flow : account_flow[i].order_number = n}

\* quantity ordered for a SKU by the lines of a request
QtyOrdered(items, s) ==
    SumSeq([i \in DOMAIN items |-> IF items[i].sku_id = s THEN items[i].quantity ELSE 0])

\* quantity sold of a product by the committed order lines
QtySold(pid) ==
    LET L == {l \in order_items : l.product_id = pid}
    IN SumFn([l \in L |-> l.quantity], L)

\* C1: concurrent creations against one SKU never oversell it: the committed lines
\* for SKU 3 (the only SKU of product 2), all of positive quantity, never add up to
\* more than the stock the SKU started with.
C1_NoOversell ==
    LET L == {l \in order_items : l.product_id = 2}
    IN (\A l \in L : l.sku_id = 3 /\ l.quantity > 0) => QtySold(2) <= stock0[3]

\* C2: in every reachable state the stock of every SKU is at least zero.
C2_StockNonNegative == \A s \in Skus : stock[s] >= 0

\* C3: a successful creation leaves every SKU referenced by one of its lines with
\* its previous stock minus the quantity ordered for that SKU.
C3_StockDecrement ==
    [][\A p \in Workers :
          (proc[p].pc = "commit" /\ proc'[p].pc = "done") =>
             \A i \in DOMAIN proc[p].items :
                LET s == proc[p].items[i].sku_id
                IN s \in Skus => stock'[s] = stock[s] - QtyOrdered(proc[p].items, s)]_vars

\* C4: a creation that fails the stock check reports InsufficientStock and leaves
\* every table as it was: no order, line, split, cart or stock change survives.
C4_InsufficientStockRollsBack ==
    [][\A p \in Workers :
          (proc[p].pc = "stock_check" /\ proc'[p].pc = "done") =>
             /\ proc'[p].result = Err(400, "InsufficientStock")
             /\ UNCHANGED dbVars]_vars

\* a creation has failed the stock check after its orders row was inserted, while
\* another order is committed
C4_Witness ==
    /\ \E p \in Workers : proc[p].pc = "done" /\ proc[p].result.kind = "InsufficientStock"
    /\ orders # {}

\* C5: the total_amount of every committed order equals the sum over its lines of
\* quantity times unit price.
C5_TotalIsSumOfLines ==
    \A o \in orders :
        o.total_amount = SumFn([l \in LinesOf(o) |-> l.quantity * l.unit_price], LinesOf(o))

\* C6: the split rows of every committed order are non-negative and add up to the
\* order's total_amount.
C6_SplitBalances ==
    \A o \in orders :
        /\ \A r \in SplitOf(o) : r.amount >= 0
        /\ SumFn([r \in SplitOf(o) |-> r.amount], SplitOf(o)) = o.total_amount

\* C7: an order is visible with all its parts or not at all: every committed order
\* has its lines, split rows and ledger rows; every line, split row and ledger row
\* belongs to a committed order; the stock shows exactly the decrements of the
\* committed lines; the balances show exactly the committed ledger rows.
C7_CreateAtomic ==
    /\ \A o \in orders :
          /\ LinesOf(o) # {}
          /\ SplitOf(o) # {}
          /\ {account_flow[i].account : i \in FlowsOf(o.order_number)}
                = {r.account : r \in SplitOf(o)}
    /\ \A l \in order_items : \E o \in orders : o.order_number = l.order_id
    /\ \A r \in order_split : \E o \in orders : o.order_number = r.order_number
    /\ \A i \in DOMAIN account_flow :
          \E o \in orders : o.order_number = account_flow[i].order_number
    /\ \A s \in Skus : stock[s] = stock0[s] - QtySold(SkuProduct(s))
    /\ balance = ApplyFlows([a \in Accounts |-> 0], account_flow)

\* one order is committed while another creation holds written but uncommitted
\* rows, stock decrements and split rows
C7_Witness ==
    /\ orders # {}
    /\ \E p \in Workers : /\ proc[p].pc = "commit"
                          /\ proc[p].tx.orders # {}
                          /\ proc[p].tx.split # {}

----------------------------------------------------------------------------
\* Properties of the refund workflow

ExistingOrderNumbers == {r.order_number : r \in orders}

\* C8: when apply is called repeatedly, one call after the other, for the number of
\* an order, the first call returns true and inserts the only refund row, in status
\* applied; every later call returns false (HTTP 400) and changes nothing, whatever
\* the status of the existing row
C8_ApplyTwice ==
    \A o \in ExistingOrderNumbers :
        LET log == applyLog[o] IN
        /\ Cardinality(RefundRowsOf(o)) <= 1
        /\ Len(log) >= 1 =>
              /\ log[1].ok /\ log[1].code = 200
              /\ log[1].before = <<>>
              /\ log[1].after = <<"applied">>
              /\ Cardinality(RefundRowsOf(o)) = 1
        /\ \A i \in 2..Len(log) :
              /\ ~log[i].ok /\ log[i].code = 400
              /\ Len(log[i].before) = 1
              /\ log[i].after = log[i].before

\* a second apply met a refund row that an audit had already approved
C8_Witness ==
    \E o \in ExistingOrderNumbers :
        /\ Len(applyLog[o]) >= 2
        /\ applyLog[o][2].before = <<"success">>
        /\ ~applyLog[o][2].ok

\* C9: no order number ever has more than one refund row, also when apply calls for
\* the same order number run concurrently
C9_OneRefundPerOrder ==
    \A o \in RefundOrderNumbers : Cardinality(RefundRowsOf(o)) <= 1

\* the step in which a worker's approving audit of order number o commits
ApprovalCommits(p, o) ==
    /\ rproc[p].pc = "audit_commit"
    /\ rproc[p].req.order_number = o
    /\ rproc[p].req.approve
    /\ rproc'[p].pc = "done"

\* the ledger holds the negation of a split row
Reversed(flows, r) ==
    \E i \in DOMAIN flows :
        /\ flows[i].flow_type = "refund"
        /\ flows[i].order_number = r.order_number
        /\ flows[i].account = r.account
        /\ flows[i].change_amount = -r.amount

\* C10: when audit(approve=true) completes for an order that has a refund row from
\* an earlier apply, the order's status is refund, the refund row's status is
\* success, and every account of the order's split has a reversal ledger row
C10_ApprovedRefund ==
    [][\A o \in ExistingOrderNumbers :
          (ApprovalCommits(Solo, o) /\ RefundExists(o)) =>
              /\ \A r \in orders' : r.order_number = o => r.status = "refund"
              /\ \A i \in DOMAIN refunds' :
                    refunds'[i].order_number = o => refunds'[i].status = "success"
              /\ \A r \in order_split :
                    r.order_number = o => Reversed(account_flow', r)]_vars

\* an applied refund was approved: order refunded, refund successful, split reversed
C10_Witness ==
    \E o \in ExistingOrderNumbers :
        /\ \E r \in orders : r.order_number = o /\ r.status = "refund"
        /\ \E i \in DOMAIN refunds : refunds[i].order_number = o /\ refunds[i].status = "success"
        /\ \E r \in order_split : r.order_number = o /\ r.amount > 0 /\ Reversed(account_flow, r)

\* what the ledger rows recorded for an order add up to on one account
NetOfOrder(o, a) ==
    LET F == {i \in DOMAIN account_flow :
                 account_flow[i].order_number = o /\ account_flow[i].account = a}
    IN SumFn([i \in F |-> account_flow[i].change_amount], F)

\* the order has the status refund and a refund row in status success
RefundApproved(o) ==
    /\ \E r \in orders : r.order_number = o /\ r.status = "refund"
    /\ \E i \in RefundRowsOf(o) : refunds[i].status = "success"

\* C11: once a refund has been approved for an order, the ledger rows of that order
\* (split credits plus reversal debits) add up to zero on every account of its split
C11_ReversalNetsToZero ==
    \A o \in ExistingOrderNumbers :
        RefundApproved(o) =>
            \A r \in order_split : r.order_number = o => NetOfOrder(o, r.account) = 0

\* the reversal ledger rows recorded for an order
ReversalsOf(flows, o) ==
    {i \in DOMAIN flows : flows[i].order_number = o /\ flows[i].flow_type = "refund"}

\* C12: refund approval is atomic: in the step that makes reversal ledger rows of an
\* order visible, the order is visible in status refund and its refund rows in
\* status success
C12_ApprovalAtomic ==
    [][\A o \in ExistingOrderNumbers :
          ReversalsOf(account_flow', o) # ReversalsOf(account_flow, o) =>
              /\ \A r \in orders' : r.order_number = o => r.status = "refund"
              /\ \A i \in DOMAIN refunds' :
                    refunds'[i].order_number = o => refunds'[i].status = "success"]_vars

----------------------------------------------------------------------------
\* Properties of the scheduler

\* the status of the order with a given number
StatusOf(rows, o) == (CHOOSE r \in rows : r.order_number = o).status

\* the tick ends: the thread goes to sleep
TickEnds == sched.pc # "sleep" /\ sched'.pc = "sleep"

\* C13: an order the scheduler has completed was settled to the merchant exactly
\* once, however many ticks have run
C13_SettledOnce ==
    \A o \in ExistingOrderNumbers :
        StatusOf(orders, o) = "completed" => settled[o] = 1

\* C14: when a tick ends, every order it fetched, other than one whose processing
\* failed, has been completed and settled
C14_FailureSparesOthers ==
    [][TickEnds =>
          \A i \in 2..Len(sched.rows) :
              /\ StatusOf(orders', sched.rows[i].order_number) = "completed"
              /\ settled'[sched.rows[i].order_number] > 0]_vars

\* C15: an order whose processing failed in a tick is, after the tick, still in
\* pending_recv and not settled
C15_FailedOrderUntouched ==
    [][(TickEnds /\ orders' = orders) =>
          LET o == Head(sched.rows).order_number
          IN StatusOf(orders', o) = "pending_recv" /\ settled'[o] = 0]_vars

----------------------------------------------------------------------------
\* Properties of the order status

\* C16: once an order is completed or refunded, no operation changes its status
C16_TerminalStatus ==
    [][\A o \in ExistingOrderNumbers :
          StatusOf(orders, o) \in {"completed", "refund"} =>
              StatusOf(orders', o) = StatusOf(orders, o)]_vars

\* C17: a pay call on an order that is not in pending_pay leaves its status unchanged
C17_PayOnlyFromPendingPay ==
    [][\A o \in ExistingOrderNumbers, w \in PayWays :
          (OrderPay(o, w) /\ StatusOf(orders, o) # "pending_pay") =>
              StatusOf(orders', o) = StatusOf(orders, o)]_vars

\* C18: every order that order creation commits, from the cart or as buy-now, has
\* the status pending_pay in the state in which it becomes visible
C18_CreatedPendingPay ==
    [][\A o \in orders' \ orders : o.status = "pending_pay"]_vars

\* two orders are committed: one by a cart checkout (its lines follow the cart's
\* product order) and one by a buy-now (only there can a quantity be negative)
C18_Witness ==
    /\ \E o \in orders :
          /\ \E l \in LinesOf(o) : l.line = 1 /\ l.product_id = 1
          /\ \E l \in LinesOf(o) : l.line = 2 /\ l.product_id = 2
    /\ \E l \in order_items : l.quantity < 0
    /\ \A o \in orders : o.status = "pending_pay"

\* C19: when a verified TRANSACTION.SUCCESS callback naming an order in pending_pay
\* is acknowledged with SUCCESS, the order is in pending_ship
C19_CallbackAdvancesOrder ==
    [][\A o \in ExistingOrderNumbers :
          (WechatPayNotify(TRUE, "TRANSACTION.SUCCESS", o)
              /\ StatusOf(orders, o) = "pending_pay") =>
                 ack'.code = "SUCCESS" /\ StatusOf(orders', o) = "pending_ship"]_vars

\* the request names a product or a SKU that does not exist
RefersMissing(req) ==
    /\ req.buy_now
    /\ \E i \in DOMAIN req.buy_now_items :
          \/ req.buy_now_items[i].product_id \notin Products
          \/ req.buy_now_items[i].sku_id \notin Skus

\* C20: a creation whose request names a missing product or SKU ends with NotFound
\* and commits nothing
C20_MissingEntityIsNotFound ==
    [][\A p \in Workers :
          /\ \A req \in CreateRequests :
                (RefersMissing(req) /\ CreateStart(p, req) /\ proc'[p].pc = "done") =>
                    proc'[p].result.kind = "NotFound" /\ UNCHANGED dbVars
          /\ (proc[p].pc \notin {"idle", "done"} /\ RefersMissing(proc[p].req)
                 /\ proc'[p].pc = "done") =>
                    proc'[p].result.kind = "NotFound" /\ UNCHANGED dbVars]_vars

----------------------------------------------------------------------------
\* Order creation against a product_skus table that has no column named stock

InitNoStock ==
    /\ stock = [s \in Skus |-> 0]
    /\ stock0 = stock
    /\ has_stock_field = FALSE
    /\ cart = {}
    /\ orders = {}
    /\ order_items = {}
    /\ order_split = {}
    /\ account_flow = <<>>
    /\ balance = [a \in Accounts |-> 0]
    /\ refunds = <<>>
    /\ proc = [p \in Workers |-> IdleProc]
    /\ nextId = 1
    /\ now = 0
    /\ rproc = [p \in Workers |-> IdleRefund]
    /\ applyLog = [o \in RefundOrderNumbers |-> <<>>]
    /\ auditCount = 0
    /\ sched = IdleSched
    /\ settled = [o \in RefundOrderNumbers |-> 0]
    /\ ack = NoAck

\* the statements that run without the column: no line of a positive quantity
\* passes the check, so no cart checkout gets as far as clearing the cart
NextNoStock ==
    \/ \E req \in CreateRequests : CreateStart(Solo, req)
    \/ CreateCheckStock(Solo)
    \/ CreateSplit(Solo)
    \/ CreateCommit(Solo)
    \/ Recycle(Solo)
    \/ \E u \in Shoppers, pid \in Products : SeqCartAdd(u, pid, 1)

SpecNoStock == InitNoStock /\ [][NextNoStock]_vars

\* C21: when table product_skus has no stock column, stock is unlimited: no order
\* creation ends with InsufficientStock, whatever the quantity
C21_NoStockFieldUnlimited ==
    ~has_stock_field =>
        \A p \in Workers : proc[p].result.kind # "InsufficientStock"

----------------------------------------------------------------------------
\* Properties of the refund audit

\* the worker is serving audit(o, approve=false)
Rejecting(w, o) == w.req.op = "audit" /\ ~w.req.approve /\ w.req.order_number = o

\* C22: an audit with approve=false sets the refund rows of the order to rejected
\* and changes no order row, no account balance and no ledger row
C22_RejectFrame ==
    [][\A o \in ExistingOrderNumbers :
          (Rejecting(rproc[Solo], o) \/ Rejecting(rproc'[Solo], o)) =>
              /\ UNCHANGED <<orders, balance, account_flow>>
              /\ rproc'[Solo].pc = "done" =>
                    \A i \in DOMAIN refunds' :
                        refunds'[i].order_number = o => refunds'[i].status = "rejected"]_vars

\* an applied refund was rejected: the order is as it was paid, the ledger holds the
\* splits only
C22_Witness ==
    \E o \in ExistingOrderNumbers :
        /\ \E i \in RefundRowsOf(o) :
              refunds[i].status = "rejected" /\ refunds[i].reject_reason = "damaged"
        /\ StatusOf(orders, o) = "pending_ship"
        /\ account_flow = PlacedFlows(Len(PlacedLines))
        /\ rproc[Solo].pc = "done"

\* C23: a refund row that has left applied is final: no later audit changes its
\* status or its reject reason
C23_AuditedOnce ==
    [][\A i \in DOMAIN refunds :
          refunds[i].status # "applied" =>
              /\ refunds'[i].status = refunds[i].status
              /\ refunds'[i].reject_reason = refunds[i].reject_reason]_vars

----------------------------------------------------------------------------
\* Properties of the ledger

----------------------------------------------------------------------------
\* Checkouts of two users over carts that hold selected and unselected rows

CartRow(u, pid, s, sel) ==
    [user_id |-> u, product_id |-> pid, sku_id |-> s, quantity |-> 1, selected |-> sel]

\* cart rows as the clients left them; (user_id, product_id) is unique (uk_user_product)
CartFixtures ==
    {c \in SUBSET {CartRow(1, 1, 1, 1), CartRow(1, 2, 3, 0), CartRow(1, 2, 3, 1),
                   CartRow(2, 1, 2, 1)} :
        \A e, f \in c : (e.user_id = f.user_id /\ e.product_id = f.product_id) => e = f}

InitCart ==
    /\ stock = [s \in Skus |-> MaxStock]
    /\ stock0 = stock
    /\ has_stock_field = TRUE
    /\ cart \in CartFixtures
    /\ orders = {}
    /\ order_items = {}
    /\ order_split = {}
    /\ account_flow = <<>>
    /\ balance = [a \in Accounts |-> 0]
    /\ refunds = <<>>
    /\ proc = [p \in Workers |-> IdleProc]
    /\ nextId = 1
    /\ now = 0
    /\ rproc = [p \in Workers |-> IdleRefund]
    /\ applyLog = [o \in RefundOrderNumbers |-> <<>>]
    /\ auditCount = 0
    /\ sched = IdleSched
    /\ settled = [o \in RefundOrderNumbers |-> 0]
    /\ ack = NoAck

\* cart checkouts of both users and a buy-now of SKU 2
CartSpecRequests ==
    {CartCheckout(u) : u \in Users} \cup {BuyNow(1, <<Line(1, 2, 1, 500)>>, TRUE)}

NextCart ==
    \/ \E req \in CartSpecRequests : CreateStart(Solo, req)
    \/ CreateCheckStock(Solo)
    \/ CreateDeductStock(Solo)
    \/ CreateClearCart(Solo)
    \/ CreateSplit(Solo)
    \/ CreateCommit(Solo)
    \/ Recycle(Solo)

SpecCart == InitCart /\ [][NextCart]_vars

\* C25: the commit of a cart checkout removes from the cart the selected rows of the
\* user and nothing else; the commit of a buy-now creation leaves the cart as it was
C25_CheckoutClearsSelected ==
    [][(proc[Solo].pc = "commit" /\ proc'[Solo].pc = "done") =>
          LET u == proc[Solo].req.user_id IN
          IF proc[Solo].req.buy_now THEN cart' = cart
          ELSE cart' = {e \in cart : ~(e.user_id = u /\ e.selected = 1)}]_vars

\* user 1 has checked out the cart: the order with the line for SKU 1 is committed,
\* the unselected row of user 1 and the row of user 2 are still in the cart
C25_Witness ==
    /\ \E o \in orders : o.user_id = 1 /\ \E l \in LinesOf(o) : l.sku_id = 1
    /\ cart = {CartRow(1, 2, 3, 0), CartRow(2, 1, 2, 1)}
    /\ proc[Solo].pc = "done"

\* C26: a cart checkout of a user who has no selected cart row ends with an error
\* (HTTP 422) and writes nothing: no order, line, split, ledger, cart or stock change,
\* and no order number is used up
C26_EmptyCheckoutFails ==
    [][\A u \in Users :
          (CreateStart(Solo, CartCheckout(u))
              /\ ~\E e \in cart : e.user_id = u /\ e.selected = 1) =>
                 /\ proc'[Solo].pc = "done"
                 /\ proc'[Solo].result.code = 422
                 /\ UNCHANGED <<dbVars, nextId>>]_vars

\* a checkout of a user whose only cart row is unselected was turned down, after
\* another order had been committed
C26_Witness ==
    /\ proc[Solo].pc = "done"
    /\ proc[Solo].result = Err(422, "EmptyCheckout")
    /\ \E e \in cart : e.user_id = 1 /\ e.selected = 0
    /\ ~\E e \in cart : e.selected = 1
    /\ orders # {}

----------------------------------------------------------------------------
\* Properties of the pay route

\* C27: a pay request with a payment method outside the allow-list is answered with
\* the validation error (HTTP 422) and leaves every orders row as it was
C27_IllegalPayWayRejected ==
    [][\A o \in LifeOrderNumbers, w \in PayWays \ VALID_PAY_WAYS :
          OrderPay(o, w) => ack'.code = "422" /\ orders' = orders]_vars

\* a pay request for the first order was turned down for its payment method while
\* the order waited for payment
C27_Witness ==
    /\ ack = [code |-> "422", event_type |-> "pay", out_trade_no |-> 1]
    /\ StatusOf(orders, 1) = "pending_pay"

----------------------------------------------------------------------------
\* Order creation and refund application side by side, each served by one worker

\* a request per outcome of create: committed, unknown product, no address, and a
\* line for SKU 2, which may be out of stock
SignalRequests ==
    {BuyNow(1, <<Line(1, 1, 1, 1000)>>, TRUE),
     BuyNow(1, <<Line(MissingProduct, 1, 1, 1000)>>, TRUE),
     BuyNow(1, <<Line(1, 1, 1, 1000)>>, FALSE),
     BuyNow(1, <<Line(1, 2, 1, 500)>>, TRUE)}

NextSignals ==
    \/ \E req \in SignalRequests : CreateStart(Solo, req)
    \/ CreateCheckStock(Solo)
    \/ CreateDeductStock(Solo)
    \/ CreateSplit(Solo)
    \/ CreateCommit(Solo)
    \/ Recycle(Solo)
    \/ \E o \in RefundOrderNumbers, t \in RefundTypes : ApplyCheck(Solo, o, t)
    \/ ApplyInsert(Solo)
    \/ RefundRecycle(Solo)

SpecSignals == Init /\ [][NextSignals]_vars

\* C28: NotFound, ValidationError, InsufficientStock and DuplicateOperation reach the
\* caller with pairwise distinct signals: two responses that report different ones
\* of the four failures never carry the same HTTP status
C28_DistinctSignals ==
    LET Four == {"NotFound", "ValidationError", "InsufficientStock", "DuplicateOperation"}
        R == {proc[p].result : p \in Workers} \cup {rproc[p].result : p \in Workers}
    IN \A a, b \in R :
          (a.kind \in Four /\ b.kind \in Four /\ a.kind # b.kind) => a.code # b.code

----------------------------------------------------------------------------
\* Properties of the scheduler next to the request handlers

\* C29: the commit of a tick changes only orders that are, in the state it changes,
\* in status pending_recv with a deadline not later than the clock, and changes of
\* them only the status, to completed
C29_TickCompletesDueOnly ==
    [][(sched.pc = "commit" /\ sched' # sched) =>
          \A r \in orders \ orders' :
              /\ r.status = "pending_recv"
              /\ r.auto_recv_time <= now
              /\ [r EXCEPT !.status = "completed"] \in orders']_vars

----------------------------------------------------------------------------
\* Properties of the validation of buy-now requests

----------------------------------------------------------------------------
\* Properties of the order lines

\* C31: the unit price recorded on every committed order line is the catalog price
\* of the SKU the line references, for cart checkouts and buy-now creations alike
C31_UnitPriceIsCatalogPrice ==
    \A l \in order_items : l.sku_id \in Skus => l.unit_price = SkuPrice(l.sku_id)

----------------------------------------------------------------------------
\* Refund application and audit next to the scheduler thread, over orders that
\* were shipped before

NextRace ==
    \/ \E o \in LifeOrderNumbers, t \in RefundTypes : ApplyCheck(Solo, o, t)
    \/ ApplyInsert(Solo)
    \/ \E o \in LifeOrderNumbers, c \in AuditChoices :
           (c[1] => ~TickLocked(o)) /\ AuditUpdate(Solo, o, c[1], c[2])
    \/ AuditReverse(Solo)
    \/ AuditCommit(Solo)
    \/ RefundRecycle(Solo)
    \/ TickSelect
    \/ TickUpdate
    \/ TickSettle
    \/ TickCommit
    \/ TimePasses

SpecRace == InitSched /\ [][NextRace]_vars

\* C32: whatever the interleaving of a tick with a refund audit, an order whose
\* refund has been approved is not completed and not settled afterwards
C32_ApprovedNeverCompleted ==
    [][\A o \in ExistingOrderNumbers :
          RefundApproved(o) =>
              /\ StatusOf(orders', o) # "completed"
              /\ settled'[o] = settled[o]]_vars

----------------------------------------------------------------------------
\* Properties of the ledger reversal

\* C33: the reversal of an order's split is applied at most once: however many
\* approving audits ran for the order number, no account holds more than one
\* reversal row of the order
C33_ReversedOnce ==
    \A o \in ExistingOrderNumbers, a \in Accounts :
        Cardinality({i \in ReversalsOf(account_flow, o) : account_flow[i].account = a}) <= 1

\* C34: an audit for an order number that has no refund row changes neither an
\* order's status nor the ledger
C34_AuditNeedsRefundRow ==
    [][\A o \in ExistingOrderNumbers :
          (~RefundExists(o)
              /\ \/ rproc[Solo].req.op = "audit" /\ rproc[Solo].req.order_number = o
                 \/ rproc'[Solo].req.op = "audit" /\ rproc'[Solo].req.order_number = o) =>
                 UNCHANGED <<orders, account_flow, balance>>]_vars

----------------------------------------------------------------------------
\* Properties of the specification payload

\* C35: a status transition that supplies no reason, a pay in particular, leaves the
\* specification that list and detail return for the order as it was stored
C35_SpecificationKept ==
    [][\A o \in ExistingOrderNumbers :
          (\/ \E w \in PayWays : OrderPay(o, w)
           \/ \E st \in Statuses : UpdateStatus(o, st, "none")) =>
              \A r \in orders, r2 \in orders' :
                  (r.order_number = o /\ r2.order_number = o) =>
                      specifications(r2) = specifications(r)]_vars

----------------------------------------------------------------------------
\* Properties of the quantities and the stock of order lines

\* C36: every line of every committed order has a quantity of at least 1, and no
\* SKU has more stock than the run started with
C36_QuantityAtLeastOne ==
    /\ \A l \in order_items : l.quantity >= 1
    /\ \A s \in Skus : stock[s] <= stock0[s]

----------------------------------------------------------------------------
\* Buy-now creations, one request at a time

\* two lines for SKU 3, the only SKU of product 2: together within the initial
\* stock, together beyond it, and a single line; and the requests that lack a
\* list, an address or the product, each of them one of CreateRequests
LinesRequests ==
    {BuyNow(1, l, TRUE) : l \in {<<Line(2, 3, 1, 330), Line(2, 3, 1, 330)>>,
                                 <<Line(2, 3, 2, 330), Line(2, 3, 1, 330)>>,
                                 <<Line(2, 3, 1, 330)>>,
                                 <<Line(1, 1, 1, 1000)>>}}
    \cup {BuyNow(1, l, a) : l \in {<<>>, <<Line(MissingProduct, 1, 1, 1000)>>},
                             a \in BOOLEAN}
    \cup {BuyNow(1, <<Line(1, 1, 1, 1000)>>, FALSE)}

NextLines ==
    \/ \E req \in LinesRequests : CreateStart(Solo, req)
    \/ CreateCheckStock(Solo)
    \/ CreateDeductStock(Solo)
    \/ CreateSplit(Solo)
    \/ CreateCommit(Solo)
    \/ Recycle(Solo)

SpecLines == Init /\ [][NextLines]_vars

\* C37: when the lines of an order for one SKU are each within the SKU's stock and
\* together beyond it, the stock check fails the creation with InsufficientStock and
\* nothing is committed
C37_CombinedLinesChecked ==
    [][(proc[Solo].pc = "stock_check" /\ proc'[Solo].pc # "stock_check"
           /\ \E s \in Skus :
                 /\ \A i \in DOMAIN proc[Solo].items :
                       proc[Solo].items[i].sku_id = s =>
                           proc[Solo].items[i].quantity <= stock[s]
                 /\ QtyOrdered(proc[Solo].items, s) > stock[s]) =>
              /\ proc'[Solo].pc = "done"
              /\ proc'[Solo].result = Err(400, "InsufficientStock")
              /\ UNCHANGED dbVars]_vars

\* C38: the commit of a creation leaves the stock of every SKU that none of its
\* lines references as it was, other SKUs of a line's product included
C38_OtherSkusUntouched ==
    [][(proc[Solo].pc = "commit" /\ proc'[Solo].pc = "done") =>
          \A s \in Skus :
              (\A i \in DOMAIN proc[Solo].items : proc[Solo].items[i].sku_id # s) =>
                  stock'[s] = stock[s]]_vars

----------------------------------------------------------------------------
\* Properties of the cart under concurrent requests

\* C39: every cart row that the commit of a cart checkout removes is a line of the
\* order the checkout creates, with the same product and quantity, also when the
\* user's cart is added to while the checkout runs
C39_DeletedRowsWereOrdered ==
    [][\A p \in Workers :
          (proc[p].pc = "commit" /\ proc'[p].pc = "done" /\ ~proc[p].req.buy_now) =>
              \A e \in cart \ cart' :
                  \E i \in DOMAIN proc[p].items :
                      /\ proc[p].items[i].product_id = e.product_id
                      /\ proc[p].items[i].quantity = e.quantity]_vars

----------------------------------------------------------------------------
\* Payment requests served one at a time: pay route, status route and callback

NextNotify ==
    \/ \E o \in LifeOrderNumbers, w \in PayWays : OrderPay(o, w)
    \/ \E o \in LifeOrderNumbers, st \in Statuses, r \in Reasons : UpdateStatus(o, st, r)
    \/ \E cfg \in Deployments, hdr \in NotifyHeaders, e \in EventTypes \cup HandledEvents :
           NotifyRequest(cfg, hdr, e, 1)

SpecNotify == InitLife /\ [][NextNotify]_vars

\* C40: in production the callback endpoint invokes an event handler (and answers
\* SUCCESS) only for a request whose signature headers were present and verified
C40_ProductionVerifies ==
    [][\A cfg \in Deployments, hdr \in NotifyHeaders, e \in HandledEvents :
          (cfg.ENVIRONMENT = "production" /\ NotifyRequest(cfg, hdr, e, 1)
              /\ ack'.code = "SUCCESS") =>
                 hdr.signed /\ hdr.valid]_vars

====
